---- MODULE Spec2Model ----
(***************************************************************************)
(* A model of gpx-splitter (src/script.js).                                *)
(*                                                                         *)
(* The program wipes the output directory, lists the *.gpx files of the    *)
(* input directory and starts one asynchronous splitGpx per file.  A       *)
(* splitGpx parses the file, collects its <rtept> elements, cuts them into *)
(* chunks of pointsPerFile and writes one document per chunk.              *)
(*                                                                         *)
(* XML documents are modelled as trees of elements; getElementsByTagName   *)
(* is the descendant search in document order that the DOM defines.  Each  *)
(* action is one run-to-completion segment of the JavaScript event loop:   *)
(* the code between two awaits.                                            *)
(*                                                                         *)
(* Input files are GPX documents whose children come in the order of the   *)
(* GPX 1.1 schema (metadata, wpt, rte; inside rte: name, rtept; inside     *)
(* rtept: name, link, type), plus two kinds of broken input: text that     *)
(* does not parse, and route points outside any <rte>.                     *)
(***************************************************************************)
EXTENDS Integers, Sequences, FiniteSets, TLC

\* ------------------------------------------------------------------ bounds
MaxPoints == 3     \* most route points in one input file (SpecSplit)
MaxP == 2          \* largest pointsPerFile tried
NumFiles == 2      \* most input files in one run (Spec)

\* ------------------------------------------------------------ text values
Txt(s, base, part) == [s |-> s, base |-> base, part |-> part]
NoText == Txt("", 0, 0)
OrigText == Txt("orig", 0, 0)
StartText == Txt("start", 0, 0)
DestinationText == Txt("destination", 0, 0)

\* `${baseName} (Part ${index + 1})`, index being the 0-based chunk index
PartName_IndexNotShifted(baseName, index) == Txt("part", baseName, index)
PartName(baseName, index) == Txt("part", baseName, index + 1)

\* `${baseName}_split_${index + 1}.gpx`: files are named by this number
OutputFileNumber(index) == index + 1

\* path.basename(inputFile, ".gpx") of the path inputDir/<base>.gpx
BaseName(inputFile) == inputFile.base

\* --------------------------------------------------------------- XML trees
El(tag, id, text, kids) == [tag |-> tag, id |-> id, text |-> text, kids |-> kids]
Leaf(tag, text) == El(tag, 0, text, <<>>)
NoDoc == El("", 0, NoText, <<>>)

\* The paths (child indices from e) of the descendants of e named tag, in
\* document order.
RECURSIVE GetElementsByTagName(_, _)
GetElementsByTagName(e, tag) ==
  LET Under(i) ==
        LET k == e.kids[i]
            sub == GetElementsByTagName(k, tag)
        IN (IF k.tag = tag THEN << <<i>> >> ELSE <<>>)
             \o [j \in 1..Len(sub) |-> <<i>> \o sub[j]]
      Cat[i \in 0..Len(e.kids)] == IF i = 0 THEN <<>> ELSE Cat[i - 1] \o Under(i)
  IN Cat[Len(e.kids)]

RECURSIVE NodeAt(_, _)
NodeAt(e, path) ==
  IF path = <<>> THEN e ELSE NodeAt(e.kids[Head(path)], Tail(path))

RECURSIVE ReplaceAt(_, _, _)
ReplaceAt(e, path, node) ==
  IF path = <<>> THEN node
  ELSE [e EXCEPT !.kids[Head(path)] = ReplaceAt(@, Tail(path), node)]

\* node.textContent = text: the node's children are replaced by the text
SetTextContent(e, path, text) ==
  ReplaceAt(e, path, [NodeAt(e, path) EXCEPT !.text = text, !.kids = <<>>])

\* a node leaves its old parent when it is appended somewhere else
RECURSIVE RemoveRtepts(_, _)
RemoveRtepts(e, ids) ==
  LET keep == SelectSeq(e.kids, LAMBDA k : ~(k.tag = "rtept" /\ k.id \in ids))
  IN [e EXCEPT !.kids = [i \in 1..Len(keep) |-> RemoveRtepts(keep[i], ids)]]

\* ------------------------------------------------------------ input files
PointShapes == {<<>>, <<"type">>, <<"link", "type">>, <<"name">>}

ShapeKid(tag) ==
  IF tag = "link" THEN El("link", 0, NoText, <<Leaf("type", OrigText)>>)
  ELSE Leaf(tag, OrigText)

Rtept(id, shape) ==
  El("rtept", id, NoText, [i \in 1..Len(shape) |-> ShapeKid(shape[i])])

FileText(meta, wpt, rte, pts) ==
  [malformed |-> FALSE, meta |-> meta, wpt |-> wpt, rte |-> rte, pts |-> pts]
Malformed == [malformed |-> TRUE, meta |-> "none", wpt |-> FALSE, rte |-> "none", pts |-> <<>>]

\* parser.parseFromString(gpxContent, "application/xml")
ParseFails(gpxContent) == gpxContent.malformed
Parse(gpxContent) ==
  LET pts == [i \in 1..Len(gpxContent.pts) |-> Rtept(i, gpxContent.pts[i])]
      meta == IF gpxContent.meta = "none" THEN <<>>
              ELSE IF gpxContent.meta = "noname" THEN <<El("metadata", 0, NoText, <<>>)>>
              ELSE <<El("metadata", 0, NoText, <<Leaf("name", OrigText)>>)>>
      wpt == IF gpxContent.wpt THEN <<El("wpt", 0, NoText, <<Leaf("name", OrigText)>>)>>
             ELSE <<>>
      rte == IF gpxContent.rte = "none" THEN pts
             ELSE IF gpxContent.rte = "noname" THEN <<El("rte", 0, NoText, pts)>>
             ELSE <<El("rte", 0, NoText, <<Leaf("name", OrigText)>> \o pts)>>
  IN El("gpx", 0, NoText, meta \o wpt \o rte)

\* ------------------------------------------------- splitGpx, the pure parts
\* routePoints.length === 0
NoRoutePoints_NeverSkips(routePoints) == FALSE
NoRoutePoints(routePoints) == Len(routePoints) = 0

\* array.slice(from, to), 0-based, end exclusive, clamped to the length
Slice(s, from, to) ==
  LET hi == IF to < Len(s) THEN to ELSE Len(s)
  IN [j \in 1..(IF hi > from THEN hi - from ELSE 0) |-> s[from + j]]

\* for (let i = 0; i < routePoints.length; i += pointsPerFile)
\*   chunks.push(routePoints.slice(i, i + pointsPerFile));
\* A chunk holds references to the nodes of routePoints: their indices.
RECURSIVE ChunkLoop(_, _, _, _)
ChunkLoop(refs, i, perFile, chunks) ==
  IF i < Len(refs)
  THEN ChunkLoop(refs, i + perFile, perFile, Append(chunks, Slice(refs, i, i + perFile)))
  ELSE chunks

RECURSIVE ChunkLoop_Overlap(_, _, _, _)
ChunkLoop_Overlap(refs, i, perFile, chunks) ==
  IF i < Len(refs)
  THEN ChunkLoop_Overlap(refs, i + perFile, perFile,
                         Append(chunks, Slice(refs, i, i + perFile + 1)))
  ELSE chunks

RECURSIVE ChunkLoop_DropsTail(_, _, _, _)
ChunkLoop_DropsTail(refs, i, perFile, chunks) ==
  IF i + perFile <= Len(refs)
  THEN ChunkLoop_DropsTail(refs, i + perFile, perFile,
                           Append(chunks, Slice(refs, i, i + perFile)))
  ELSE chunks

Chunks_Overlap(refs, i, perFile, chunks) == ChunkLoop_Overlap(refs, i, perFile, chunks)
Chunks_DropsTail(refs, i, perFile, chunks) == ChunkLoop_DropsTail(refs, i, perFile, chunks)
Chunks(refs, i, perFile, chunks) == ChunkLoop(refs, i, perFile, chunks)

\* let typeElement = rtept.getElementsByTagName("type")[0];
\* if (typeElement) typeElement.textContent = text;
\* else { typeElement = newDoc.createElement("type"); ...; rtept.appendChild(typeElement) }
SetType(rtept, text) ==
  LET types == GetElementsByTagName(rtept, "type")
  IN IF Len(types) > 0 THEN SetTextContent(rtept, types[1], text)
     ELSE [rtept EXCEPT !.kids = Append(@, Leaf("type", text))]

\* the body of chunk.forEach before rte.appendChild(rtept); rteptIndex is 0-based
AnnotatePoint(rtept, rteptIndex, chunkLength) ==
  LET first == IF rteptIndex = 0 THEN SetType(rtept, StartText) ELSE rtept
  IN IF rteptIndex = chunkLength - 1 THEN SetType(first, DestinationText) ELSE first

\* One pass of the loop over chunks up to the serialised document: threw tells
\* whether it raised (rte undefined), newDoc is the document handed to the
\* serialiser, doc and routePoints are the step-1 document and the nodes of
\* routePoints afterwards.
BuildChunk(gpxContent, baseName, doc, routePoints, chunk, index) ==
  LET newDoc0 == Parse(gpxContent)
      names == GetElementsByTagName(newDoc0, "name")
      newDoc1 == IF Len(names) > 0
                 THEN SetTextContent(newDoc0, names[1], PartName(baseName, index))
                 ELSE newDoc0
      rtes == GetElementsByTagName(newDoc1, "rte")
  IN IF Len(rtes) = 0
     THEN [threw |-> TRUE, newDoc |-> NoDoc, doc |-> doc, routePoints |-> routePoints]
     ELSE
       LET rtePath == rtes[1]
           rteNames == GetElementsByTagName(NodeAt(newDoc1, rtePath), "name")
           hasName == Len(rteNames) > 0
           newDoc2 == IF hasName
                      THEN SetTextContent(newDoc1, rtePath \o rteNames[1],
                                          PartName(baseName, index))
                      ELSE newDoc1
           annotated == [i \in 1..Len(chunk) |->
                           AnnotatePoint(routePoints[chunk[i]], i - 1, Len(chunk))]
           kids == (IF hasName THEN <<NodeAt(newDoc2, rtePath \o rteNames[1])>> ELSE <<>>)
                     \o annotated
           moved == {chunk[i] : i \in 1..Len(chunk)}
       IN [threw |-> FALSE,
           newDoc |-> ReplaceAt(newDoc2, rtePath, [NodeAt(newDoc2, rtePath) EXCEPT !.kids = kids]),
           doc |-> RemoveRtepts(doc, {routePoints[r].id : r \in moved}),
           routePoints |-> [r \in 1..Len(routePoints) |->
                              IF r \in moved
                              THEN AnnotatePoint(routePoints[r],
                                     (CHOOSE i \in 1..Len(chunk) : chunk[i] = r) - 1, Len(chunk))
                              ELSE routePoints[r]]]

\* ------------------------------------------------------------------- state
VARIABLES
  gpxFiles,        \* glob.sync(inputDir/*.gpx): the input paths, in order
  content,         \* the text of each input file
  pointsPerFile,   \* the chunk size handed to splitGpx
  rejectionMode,   \* what the runtime does with an unhandled rejection
  pcMain,          \* the top-level async function: "start", "map", "done"
  pcClear,         \* clearDirectory: "rm", "mkdir", "done"
  mapIdx,          \* next element of gpxFiles.map
  log,             \* console output, as a set of [msg, file]
  fs,              \* the output directory: [exists, subdirs, files]
  task,            \* per input file: the splitGpx invocation
  reported,        \* rejected invocations the runtime has reported
  crashed          \* the process was ended by an unhandled rejection

vars == <<gpxFiles, content, pointsPerFile, rejectionMode, pcMain, pcClear, mapIdx,
          log, fs, task, reported, crashed>>

NoFile == [dir |-> "", base |-> 0, ext |-> ""]
Msg(msg, file) == [msg |-> msg, file |-> file]
Files == {gpxFiles[i] : i \in 1..Len(gpxFiles)}

IdleTask ==
  [pc |-> "idle", doc |-> NoDoc, routePoints |-> <<>>, chunks |-> <<>>, index |-> 0,
   out |-> NoDoc]

\* the synchronous gpxFiles.map has run to its end and the caller awaits
MainYielded == pcMain = "done" \/ (pcMain = "map" /\ mapIdx > Len(gpxFiles))

\* ------------------------------------------------------- clearDirectory
\* await pFs.rm(directoryPath, { recursive: true, force: true }): the tree is
\* removed, or rm raises and the catch logs the error.
ClearRm ==
  /\ ~crashed /\ pcClear = "rm"
  /\ \E ok \in BOOLEAN :
       IF ok
       THEN /\ fs' = [exists |-> FALSE, subdirs |-> {}, files |-> {}]
            /\ pcClear' = "mkdir"
            /\ log' = log
       ELSE /\ log' = log \cup {Msg("Error clearing directory", NoFile)}
            /\ pcClear' = "done"
            /\ fs' = fs
  /\ UNCHANGED <<gpxFiles, content, pointsPerFile, rejectionMode, pcMain, mapIdx, task,
                 reported, crashed>>

\* await pFs.mkdir(directoryPath): not recursive, so it raises on an existing
\* directory; then the "Cleared" line, or the catch.
ClearMkdir ==
  /\ ~crashed /\ pcClear = "mkdir"
  /\ \E ok \in BOOLEAN :
       IF ok /\ ~fs.exists
       THEN /\ fs' = [fs EXCEPT !.exists = TRUE]
            /\ log' = log \cup {Msg("Cleared", NoFile)}
       ELSE /\ log' = log \cup {Msg("Error clearing directory", NoFile)}
            /\ fs' = fs
  /\ pcClear' = "done"
  /\ UNCHANGED <<gpxFiles, content, pointsPerFile, rejectionMode, pcMain, mapIdx, task,
                 reported, crashed>>

\* await clearDirectory(outputDir): the caller goes on once it has settled
ClearAwaited_NoAwait == TRUE
ClearAwaited == pcClear = "done"

\* ------------------------------------------------------- processGpxFiles
\* glob.sync, the empty check and the "Found" line
ProcessGpxFiles ==
  /\ ~crashed /\ pcMain = "start" /\ ClearAwaited
  /\ IF Len(gpxFiles) = 0
     THEN /\ log' = log \cup {Msg("No GPX files found", NoFile)}
          /\ pcMain' = "done"
     ELSE /\ log' = log \cup {Msg("Found", NoFile)}
          /\ pcMain' = "map"
  /\ UNCHANGED <<gpxFiles, content, pointsPerFile, rejectionMode, pcClear, mapIdx, fs, task,
                 reported, crashed>>

\* splitGpx from its call to its first await (or its return, or its throw)
SplitGpxStart(inputFile) ==
  LET gpxContent == content[inputFile]
      doc == Parse(gpxContent)
      paths == GetElementsByTagName(doc, "rtept")
      routePoints == [i \in 1..Len(paths) |-> NodeAt(doc, paths[i])]
      chunks == Chunks([i \in 1..Len(routePoints) |-> i], 0, pointsPerFile, <<>>)
      baseName == BaseName(inputFile)
      processing == Msg("Processing", inputFile)
      Reject == task' = [task EXCEPT ![inputFile].pc = "rejected"]
  IN IF ParseFails(gpxContent)
     THEN Reject /\ log' = log \cup {processing} /\ fs' = fs
     ELSE IF NoRoutePoints(routePoints)
     THEN /\ task' = [task EXCEPT ![inputFile].pc = "skipped", ![inputFile].doc = doc]
          /\ log' = log \cup {processing, Msg("No route points", inputFile)}
          /\ fs' = fs
     ELSE /\ log' = log \cup {processing}
          /\ \E mkdirOk \in BOOLEAN :
               IF baseName \in fs.subdirs \/ mkdirOk
               THEN /\ fs' = [fs EXCEPT !.exists = TRUE, !.subdirs = @ \cup {baseName}]
                    /\ task' = [task EXCEPT ![inputFile] =
                                  [pc |-> "import", doc |-> doc, routePoints |-> routePoints,
                                   chunks |-> chunks, index |-> 0, out |-> NoDoc]]
               ELSE Reject /\ fs' = fs

\* one call of the callback of gpxFiles.map; the callback returns nothing, so
\* the promise of splitGpx is dropped
MapCall ==
  /\ ~crashed /\ pcMain = "map" /\ mapIdx <= Len(gpxFiles)
  /\ SplitGpxStart(gpxFiles[mapIdx])
  /\ mapIdx' = mapIdx + 1
  /\ UNCHANGED <<gpxFiles, content, pointsPerFile, rejectionMode, pcMain, pcClear,
                 reported, crashed>>

\* await Promise.all([undefined, ...]) and the "All GPX files processed." line
LogAllProcessed ==
  /\ ~crashed /\ pcMain = "map" /\ mapIdx > Len(gpxFiles)
  /\ log' = log \cup {Msg("All GPX files processed", NoFile)}
  /\ pcMain' = "done"
  /\ UNCHANGED <<gpxFiles, content, pointsPerFile, rejectionMode, pcClear, mapIdx, fs, task,
                 reported, crashed>>

\* ------------------------------------------------ splitGpx, after an await
\* the loop body from parseFromString to the await of prettier.format
BuildStep(inputFile, t, index) ==
  LET b == BuildChunk(content[inputFile], BaseName(inputFile), t.doc, t.routePoints,
                      t.chunks[index + 1], index)
  IN IF b.threw THEN [t EXCEPT !.pc = "rejected", !.index = index]
     ELSE [t EXCEPT !.pc = "format", !.index = index, !.doc = b.doc,
                    !.routePoints = b.routePoints, !.out = b.newDoc]

\* the import of the Prettier plugin has resolved: the first chunk is built
ImportResolved(inputFile) ==
  /\ ~crashed /\ MainYielded
  /\ task[inputFile].pc = "import"
  /\ IF Len(task[inputFile].chunks) > 0
     THEN /\ task' = [task EXCEPT ![inputFile] = BuildStep(inputFile, task[inputFile], 0)]
          /\ log' = log
     ELSE /\ task' = [task EXCEPT ![inputFile].pc = "finished"]
          /\ log' = log \cup {Msg("Finished processing", inputFile)}
  /\ UNCHANGED <<gpxFiles, content, pointsPerFile, rejectionMode, pcMain, pcClear, mapIdx,
                 fs, reported, crashed>>

\* prettier.format has resolved: the chunk is written (the file is recorded as
\* the element tree its text denotes), then the next chunk is built, or the
\* loop ends with the "Finished" line.  writeFileSync raises without the
\* subdirectory, or when the write fails.
FormatResolved(inputFile) ==
  LET t == task[inputFile]
      baseName == BaseName(inputFile)
      number == OutputFileNumber(t.index)
      others == {r \in fs.files : ~(r.base = baseName /\ r.number = number)}
  IN /\ ~crashed /\ MainYielded
     /\ t.pc = "format"
     /\ \E writeOk \in BOOLEAN :
          IF writeOk /\ fs.exists /\ baseName \in fs.subdirs
          THEN /\ fs' = [fs EXCEPT !.files =
                           others \cup {[base |-> baseName, number |-> number, doc |-> t.out]}]
               /\ IF t.index + 1 < Len(t.chunks)
                  THEN /\ task' = [task EXCEPT ![inputFile] =
                                     BuildStep(inputFile, t, t.index + 1)]
                       /\ log' = log \cup {Msg("Saved", inputFile)}
                  ELSE /\ task' = [task EXCEPT ![inputFile].pc = "finished"]
                       /\ log' = log \cup {Msg("Saved", inputFile),
                                           Msg("Finished processing", inputFile)}
          ELSE /\ task' = [task EXCEPT ![inputFile].pc = "rejected"]
               /\ fs' = fs /\ log' = log
     /\ UNCHANGED <<gpxFiles, content, pointsPerFile, rejectionMode, pcMain, pcClear, mapIdx,
                    reported, crashed>>

\* Nothing awaits or catches the promise of a splitGpx that threw.  What the
\* runtime does with the unhandled rejection is its choice: it ends the
\* process ("throw") or prints a warning and goes on ("warn").
UnhandledRejection ==
  /\ ~crashed /\ MainYielded
  /\ \E f \in Files :
       /\ task[f].pc = "rejected" /\ f \notin reported
       /\ reported' = reported \cup {f}
       /\ crashed' = (rejectionMode = "throw")
  /\ UNCHANGED <<gpxFiles, content, pointsPerFile, rejectionMode, pcMain, pcClear, mapIdx,
                 log, fs, task>>

\* ---------------------------------------------------------- specifications
\* the inputs of a run: documents with and without route points, one that
\* does not parse, one whose route points are outside any rte
BatchDocs ==
  { Malformed,
    FileText("name", FALSE, "name", <<>>),
    FileText("name", FALSE, "name", << <<>>, <<"type">> >>),
    FileText("none", FALSE, "none", << <<>> >>) }

PathOf(b) == [dir |-> "input", base |-> b, ext |-> "gpx"]

Init ==
  /\ \E n \in 0..NumFiles : gpxFiles = [i \in 1..n |-> PathOf(i)]
  /\ content \in [Files -> BatchDocs]
  /\ pointsPerFile \in 1..MaxP
  /\ rejectionMode \in {"throw", "warn"}
  /\ pcMain = "start" /\ pcClear = "rm" /\ mapIdx = 1
  /\ log = {}
  /\ \E stale \in SUBSET {1} :
       fs = [exists |-> stale # {}, subdirs |-> stale, files |-> {}]
  /\ task = [f \in Files |-> IdleTask]
  /\ reported = {} /\ crashed = FALSE

Next ==
  \/ ClearRm
  \/ ClearMkdir
  \/ ProcessGpxFiles
  \/ MapCall
  \/ LogAllProcessed
  \/ \E f \in Files : ImportResolved(f)
  \/ \E f \in Files : FormatResolved(f)
  \/ UnhandledRejection

Spec == Init /\ [][Next]_vars

\* splitGpx on its own: one input file of any shape within the bounds, the
\* output directory already reset, the call of splitGpx about to be made
SeqsUpTo(S, n) == UNION {[1..k -> S] : k \in 0..n}

SplitDocs ==
  {Malformed} \cup
  { FileText(m, w, r, p) : m \in {"none", "noname", "name"}, w \in BOOLEAN,
                           r \in {"none", "noname", "name"},
                           p \in SeqsUpTo(PointShapes, MaxPoints) }

InitSplit ==
  /\ gpxFiles = <<PathOf(1)>>
  /\ content \in [Files -> SplitDocs]
  /\ pointsPerFile \in 1..MaxP
  /\ rejectionMode = "warn"
  /\ pcMain = "map" /\ pcClear = "done" /\ mapIdx = 1
  /\ log = {Msg("Cleared", NoFile), Msg("Found", NoFile)}
  /\ fs = [exists |-> TRUE, subdirs |-> {}, files |-> {}]
  /\ task = [f \in Files |-> IdleTask]
  /\ reported = {} /\ crashed = FALSE

NextSplit ==
  \/ MapCall
  \/ \E f \in Files : ImportResolved(f)
  \/ \E f \in Files : FormatResolved(f)

SpecSplit == InitSplit /\ [][NextSplit]_vars

\* ------------------------------------------------- vocabulary of the claims
HasChild(e, tag) == \E i \in 1..Len(e.kids) : e.kids[i].tag = tag
Child(e, tag) == e.kids[CHOOSE i \in 1..Len(e.kids) :
                          e.kids[i].tag = tag /\ \A j \in 1..(i - 1) : e.kids[j].tag # tag]
PointsOf(doc) ==
  LET paths == GetElementsByTagName(doc, "rtept")
  IN [i \in 1..Len(paths) |-> NodeAt(doc, paths[i])]
PointIds(doc) == {PointsOf(doc)[i].id : i \in 1..Len(PointsOf(doc))}

\* a route point without its type annotations
RECURSIVE EraseType(_)
EraseType(e) ==
  LET keep == SelectSeq(e.kids, LAMBDA k : k.tag # "type")
  IN [e EXCEPT !.kids = [i \in 1..Len(keep) |-> EraseType(keep[i])]]

\* the text of the type child of a route point
TypeChildText(rtept) == IF HasChild(rtept, "type") THEN Child(rtept, "type").text ELSE NoText

Source(f) == Parse(content[f])
FilesOf(f) == {r \in fs.files : r.base = f.base}
Numbers(f) == {r.number : r \in FilesOf(f)}
FileDoc(f, k) == (CHOOSE r \in FilesOf(f) : r.number = k).doc
LastNumber(f) == IF Numbers(f) = {} THEN 0 ELSE CHOOSE k \in Numbers(f) : \A j \in Numbers(f) : j <= k

\* the route points of the files numbered 1..k, one file after the other
RECURSIVE ConcatPoints(_, _)
ConcatPoints(f, k) ==
  IF k = 0 THEN <<>>
  ELSE ConcatPoints(f, k - 1) \o (IF k \in Numbers(f) THEN PointsOf(FileDoc(f, k)) ELSE <<>>)

Settled(f) == task[f].pc \in {"finished", "skipped", "rejected"}
ZeroPoints(f) == ~ParseFails(content[f]) /\ Len(PointsOf(Source(f))) = 0
CeilDiv(n, p) == (n + p - 1) \div p

\* ------------------------------------------------------------------ claims
\* C1: the route points of the files written so far, taken in file-number
\* order and without their type annotations, are a prefix of the route points
\* of the input in document order; once splitGpx has finished they are the
\* whole sequence: nothing dropped, duplicated or reordered.
C1_ConcatenationIsOriginal ==
  \A f \in Files :
    ~ParseFails(content[f]) =>
      LET orig == PointsOf(Source(f))
          got == ConcatPoints(f, LastNumber(f))
      IN /\ Len(got) <= Len(orig)
         /\ \A i \in 1..Len(got) : EraseType(got[i]) = EraseType(orig[i])
         /\ task[f].pc = "finished" => Len(got) = Len(orig)

C1_Witness ==
  \E f \in Files :
    /\ task[f].pc = "finished" /\ LastNumber(f) >= 2
    /\ Len(ConcatPoints(f, LastNumber(f))) = MaxPoints

\* C2: a finished splitGpx of N >= 1 points has written the files numbered
\* 1..ceil(N/P) and no other; each but the last holds P points, the last
\* between 1 and P.
C2_ChunkCountAndSizes ==
  \A f \in Files :
    task[f].pc = "finished" =>
      LET n == CeilDiv(Len(content[f].pts), pointsPerFile)
      IN /\ Numbers(f) = 1..n
         /\ Cardinality(FilesOf(f)) = n
         /\ \A k \in 1..(n - 1) : Len(PointsOf(FileDoc(f, k))) = pointsPerFile
         /\ Len(PointsOf(FileDoc(f, n))) \in 1..pointsPerFile

C2_Witness ==
  \E f \in Files :
    /\ task[f].pc = "finished" /\ LastNumber(f) >= 2
    /\ Len(PointsOf(FileDoc(f, LastNumber(f)))) < pointsPerFile

\* C3: in every written file the type child of the first route point reads
\* "start" and that of the last reads "destination" ("destination" for a
\* single point), and the points in between are as they were in the input.
C3_FirstStartLastDestination ==
  \A f \in Files : \A r \in FilesOf(f) :
    LET pts == PointsOf(r.doc)
        n == Len(pts)
    IN /\ n >= 1
       /\ TypeChildText(pts[1]) = (IF n = 1 THEN DestinationText ELSE StartText)
       /\ TypeChildText(pts[n]) = DestinationText
       /\ \A i \in 2..(n - 1) : pts[i] = PointsOf(Source(f))[pts[i].id]

\* C4: in the file of chunk k, metadata/name and rte/name, where the input
\* has them, read "{baseName} (Part k)".
C4_NamesReadPartK ==
  \A f \in Files : \A r \in FilesOf(f) :
    LET src == Source(f)
        want == Leaf("name", Txt("part", f.base, r.number))
    IN /\ (HasChild(src, "metadata") /\ HasChild(Child(src, "metadata"), "name")) =>
            /\ HasChild(r.doc, "metadata")
            /\ HasChild(Child(r.doc, "metadata"), "name")
            /\ Child(Child(r.doc, "metadata"), "name") = want
       /\ (HasChild(src, "rte") /\ HasChild(Child(src, "rte"), "name")) =>
            /\ HasChild(r.doc, "rte")
            /\ HasChild(Child(r.doc, "rte"), "name")
            /\ Child(Child(r.doc, "rte"), "name") = want

C4_Witness ==
  \E f \in Files : \E r \in FilesOf(f) :
    /\ r.number = 2
    /\ content[f].meta = "name" /\ content[f].rte = "name"

\* C5: when the process has come to its end, every input file has been
\* processed to its own outcome (finished, skipped or failed), whatever
\* happened to the other files.
ProcessEnded ==
  \/ crashed
  \/ /\ pcMain = "done" /\ pcClear = "done"
     /\ \A f \in Files : task[f].pc \notin {"import", "format"}
     /\ \A f \in Files : task[f].pc = "rejected" => f \in reported

C5_OtherFilesStillProcessed ==
  ProcessEnded => \A f \in Files : Settled(f)

\* C6: "All GPX files processed." is in the log only when every splitGpx that
\* was started has finished, skipped its file or failed.
C6_AllProcessedLoggedLast ==
  Msg("All GPX files processed", NoFile) \in log => \A f \in Files : Settled(f)

\* C7: until clearDirectory has settled no splitGpx has started and nothing
\* is written; after it has settled nothing written or created is deleted;
\* a failed wipe is logged and processGpxFiles can still be entered.
C7_ClearIsBarrier ==
  /\ [](pcClear # "done" =>
          /\ pcMain = "start"
          /\ fs.files = {}
          /\ \A f \in Files : task[f] = IdleTask)
  /\ [](pcClear = "done" =>
          /\ (Msg("Cleared", NoFile) \in log \/ Msg("Error clearing directory", NoFile) \in log)
          /\ pcMain = "start" /\ ~crashed => ENABLED ProcessGpxFiles)
  /\ [][ /\ \A r \in fs.files : \E q \in fs'.files : q.base = r.base /\ q.number = r.number
         /\ (\E f \in Files : task[f] # IdleTask) => fs.subdirs \subseteq fs'.subdirs ]_vars

C7_Witness ==
  /\ Msg("Error clearing directory", NoFile) \in log
  /\ fs.files # {}

\* C8: a file without route points is skipped with a log line: its splitGpx
\* never fails, no file of it is written, its subdirectory is never created,
\* and the step that skips it touches nothing else.
C8_ZeroPointsSkipped ==
  /\ [](\A f \in Files : ZeroPoints(f) =>
          /\ task[f].pc \in {"idle", "skipped"}
          /\ FilesOf(f) = {}
          /\ task[f].pc = "skipped" => Msg("No route points", f) \in log)
  /\ [][\A f \in Files : ZeroPoints(f) =>
          /\ f.base \in fs'.subdirs => f.base \in fs.subdirs
          /\ task'[f] # task[f] =>
               /\ fs' = fs /\ crashed' = crashed
               /\ \A g \in Files \ {f} : task'[g] = task[g] ]_vars

C8_Witness ==
  \E f, g \in Files :
    ZeroPoints(f) /\ task[f].pc = "skipped" /\ task[g].pc = "finished"

\* C9 as stated: the document parsed in step 1 is never changed.
C9_SourceDocumentUnchanged ==
  \A f \in Files : task[f].doc # NoDoc => task[f].doc = Source(f)

\* C9 amended: the document parsed in step 1 is the input less the route
\* points that went into the chunk documents built so far, and nothing else
\* in it differs; the route points of the chunks still to be built are as
\* parsed; a written file is never changed afterwards.
MovedIds(f) == PointIds(task[f].out) \cup UNION {PointIds(r.doc) : r \in FilesOf(f)}
ChunksBuilt(f) == IF task[f].pc = "import" THEN 0 ELSE task[f].index + 1

C9_OnlyOwnChunkTouched ==
  /\ [](\A f \in Files : task[f].doc # NoDoc =>
          /\ task[f].doc = RemoveRtepts(Source(f), MovedIds(f))
          /\ task[f].pc \in {"import", "format"} =>
               \A c \in (ChunksBuilt(f) + 1)..Len(task[f].chunks) :
                 \A i \in 1..Len(task[f].chunks[c]) :
                   LET r == task[f].chunks[c][i]
                   IN /\ task[f].routePoints[r] = PointsOf(Source(f))[r]
                      /\ task[f].routePoints[r].id \notin MovedIds(f))
  /\ [][\A r \in fs.files : r \in fs'.files]_vars

C9_Witness ==
  \E f \in Files :
    /\ task[f].pc = "format" /\ task[f].index = 0 /\ Len(task[f].chunks) >= 2
    /\ task[f].doc # Source(f)

\* C10: in every written file the children of rte are the renamed name node
\* exactly when the rte of the input has a name child, then the route points
\* of the chunk and nothing else.
C10_RteChildren ==
  \A f \in Files : \A r \in FilesOf(f) :
    LET srcRte == Child(Source(f), "rte")
        outRte == Child(r.doc, "rte")
        named == HasChild(srcRte, "name")
        k == IF named THEN 1 ELSE 0
    IN /\ Len(outRte.kids) = k + Len(PointsOf(r.doc))
       /\ named => outRte.kids[1] = Leaf("name", Txt("part", f.base, r.number))
       /\ \A i \in (k + 1)..Len(outRte.kids) : outRte.kids[i].tag = "rtept"

====
